---- MODULE Spec2Model ----
(***************************************************************************)
(* A model of the OISP registry pipeline scripts:                          *)
(*   scripts/compare-models.py  (drift comparator)        -> SpecCompare   *)
(*   scripts/build-bundle.py    (bundle compiler)         -> SpecBundle    *)
(*   scripts/sync-models.py     (normalizer / sync run)   -> SpecSync      *)
(*   glob_to_regex of build-bundle.py, on its own         -> SpecGlob      *)
(*                                                                         *)
(* Python strings are modelled as sequences of tokens (a provider id is    *)
(* one token, "/" is one token), so that f"{provider}/{id}", startswith    *)
(* and prefix stripping are computed, not assumed.  An optional value      *)
(* (dict.get(...) returning None) is <<>> when absent and <<v>> when       *)
(* present.  Costs are integers: the comparator's count units of 1e-11,    *)
(* the normalizer's units of 1e-13 (per token) and 1e-8 (per 1k tokens).   *)
(***************************************************************************)
EXTENDS Integers, Sequences, FiniteSets, TLC

VARIABLES
    \* ---- compare-models.py ----
    pc_cmp,            \* position of the comparator run
    current,           \* load_json(current_path)
    upstream_raw,      \* load_json(upstream_path)
    report_file,       \* the file at output_path
    new_models, removed_models, new_providers, removed_providers,
    pricing_changes,   \* the drift collections compare_models computes
    has_changes,       \* the value compare_models returns
    exit_code,         \* sys.exit of main
    \* ---- build-bundle.py ----
    pc_bld,            \* position of the bundle build
    registry_file,     \* semconv/providers/registry.yaml
    config_files,      \* the other semconv/providers/*.yaml, by file
    models_file,       \* semconv/providers/_generated/models.json
    minify,            \* args.minify
    glob_order,        \* the order PROVIDERS_DIR.glob("*.yaml") yields the files in
    provider_configs,  \* load_provider_configs(): an insertion-ordered dict
    bundle,            \* the document build_bundle returns
    out_primary,       \* the file at args.output
    out_min,           \* the file at args.output.with_suffix(".min.json")
    stderr,            \* the diagnostics the run has printed
    run,               \* which of two successive runs over the same inputs this is
    now,               \* datetime.now(timezone.utc)
    first_bundle,      \* the document the first run built
    \* ---- sync-models.py ----
    pc_syn,            \* position of the sync run
    upstream,          \* the LiteLLM catalog: (model_id, entry) pairs in upstream order
    input_file,        \* args.input_file names an existing local copy of the catalog
    raw_data,          \* what fetch_litellm_data returned
    next_entry,        \* the position of main's loop over raw_data.items()
    models,            \* main's list of parsed models
    by_provider,       \* group_by_provider(models)
    yaml_file,         \* output_dir / "models.yaml"
    json_file,         \* output_dir / "models.json"
    ts_file,           \* output_dir / "models.ts"
    exit_syn,          \* the exit status of the sync run
    \* ---- glob_to_regex of build-bundle.py, on its own ----
    glob_pattern,      \* the argument of a call of glob_to_regex
    glob_regex         \* what the call returned, once it has

cmpVars == <<pc_cmp, current, upstream_raw, report_file, new_models,
             removed_models, new_providers, removed_providers,
             pricing_changes, has_changes, exit_code>>

bldVars == <<pc_bld, registry_file, config_files, models_file, minify,
             glob_order, provider_configs, bundle, out_primary, out_min,
             stderr, run, now, first_bundle>>

synVars == <<pc_syn, upstream, input_file, raw_data, next_entry, models,
             by_provider, yaml_file, json_file, ts_file, exit_syn>>

globVars == <<glob_pattern, glob_regex>>

vars == <<cmpVars, bldVars, synVars, globVars>>

----------------------------------------------------------------------------
(* Optional values *)

None == <<>>
Some(v) == <<v>>

Abs(x) == IF x < 0 THEN 0 - x ELSE x

----------------------------------------------------------------------------
(* compare-models.py *)

\* f"{provider_id}/{model_id}"
Key(provider_id, model_id) == <<provider_id, "/">> \o model_id

\* tol=1e-9 of close(), in units of 1e-11
Tol == 100

\* cost.get("input", 0) / 1000 if cost.get("input") else None
\* (the enumerated upstream costs are multiples of 1000 units, so the
\* division is exact)
PerK_Times(raw) == IF raw = None \/ raw = Some(0) THEN None ELSE Some(raw[1] * 1000)
PerK(raw) == IF raw = None \/ raw = Some(0) THEN None ELSE Some(raw[1] \div 1000)

\* extract_models_from_models_dev: the flat "{provider}/{id}" keyed dict
UpstreamEntries(data) ==
    { <<p, m>> \in (DOMAIN data) \X UNION { DOMAIN data[q].models : q \in DOMAIN data } :
          m \in DOMAIN data[p].models }

extract_models_from_models_dev(data) ==
    LET keys == { Key(e[1], e[2]) : e \in UpstreamEntries(data) }
        src(k) == CHOOSE e \in UpstreamEntries(data) : Key(e[1], e[2]) = k
    IN  [ k \in keys |->
            LET e == src(k)
                cost == data[e[1]].models[e[2]].cost
            IN  [ provider |-> e[1],
                  model_id |-> e[2],
                  input_cost_per_1k |-> PerK(cost.input),
                  output_cost_per_1k |-> PerK(cost.output),
                  mode |-> "chat" ] ]

\* cost.get exists: the value under "cost" is a JSON object
IsCostMapping(cost) == "input" \in DOMAIN cost

\* a cost that can be divided by 1000: absent, null or a number
IsNumberOrNone(raw) == raw = None \/ Len(raw) = 1

\* extract_models_from_models_dev raises: line 41 calls cost.get on a value
\* that is null or not an object (AttributeError), lines 45-46 divide a
\* truthy value that is not a number by 1000 (TypeError)
ExtractRaises(data) ==
    \E p \in DOMAIN data :
        \E m \in DOMAIN data[p].models :
            LET cost == data[p].models[m].cost
            IN  IF ~ IsCostMapping(cost) THEN TRUE
                ELSE ~ (IsNumberOrNone(cost.input) /\ IsNumberOrNone(cost.output))

\* close(a, b, tol=1e-9)
close(a, b) ==
    IF a = None /\ b = None THEN TRUE
    ELSE IF a = None \/ b = None THEN FALSE
    ELSE Abs(a[1] - b[1]) < Tol

\* new_models = upstream_model_keys - current_model_keys
NewModels_Swapped(current_model_keys, upstream_model_keys) ==
    current_model_keys \ upstream_model_keys
NewModels(current_model_keys, upstream_model_keys) ==
    upstream_model_keys \ current_model_keys

\* removed_models = current_model_keys - upstream_model_keys
RemovedModels(current_model_keys, upstream_model_keys) ==
    current_model_keys \ upstream_model_keys

\* new_providers = upstream_providers - current_providers
NewProviders(current_providers, upstream_providers) ==
    upstream_providers \ current_providers

\* removed_providers = current_providers - upstream_providers
RemovedProviders(current_providers, upstream_providers) ==
    current_providers \ upstream_providers

\* the loop over current_model_keys & upstream_model_keys; the list it
\* appends to holds at most one change per key and is kept as a set (the
\* iteration order of a Python set is unspecified)
PricingChanges(current_models, upstream_models) ==
    { [ model |-> k,
        old_input |-> current_models[k].input_cost_per_1k,
        new_input |-> upstream_models[k].input_cost_per_1k,
        old_output |-> current_models[k].output_cost_per_1k,
        new_output |-> upstream_models[k].output_cost_per_1k ] :
      k \in { k \in DOMAIN current_models \cap DOMAIN upstream_models :
                \* "Skip if both are None": continue
                /\ ~ ( current_models[k].input_cost_per_1k = None
                       /\ upstream_models[k].input_cost_per_1k = None )
                /\ \/ ~ close(current_models[k].input_cost_per_1k,
                              upstream_models[k].input_cost_per_1k)
                   \/ ~ close(current_models[k].output_cost_per_1k,
                              upstream_models[k].output_cost_per_1k) } }

\* has_changes = bool(new_models or removed_models or new_providers or pricing_changes)
HasChanges(nm, rm, np, pcs) ==
    nm # {} \/ rm # {} \/ np # {} \/ pcs # {}

\* the report written when has_changes: its sections, each with the count
\* in its heading, then the summary
ReportSection(title, n) == IF n > 0 THEN << [section |-> title, count |-> n] >> ELSE << >>

ReportText(np, nm, rm, pcs) ==
    << [section |-> "# Model Registry Drift Report", count |-> 0] >>
    \o ReportSection("## New Providers", Cardinality(np))
    \o ReportSection("## New Models", Cardinality(nm))
    \o ReportSection("## Removed/Deprecated Models", Cardinality(rm))
    \o ReportSection("## Pricing Changes", Cardinality(pcs))
    \o << [section |-> "## Summary",
           count |-> Cardinality(np) + Cardinality(nm) + Cardinality(rm) + Cardinality(pcs)] >>

\* open(output_path, "w") ... f.write(...)
WriteFile(content) == [exists |-> TRUE, content |-> content]

\* Path(output_path).touch(): creates the file empty when it does not
\* exist, leaves the content of an existing file alone
Touch(file) == IF file.exists THEN file ELSE [exists |-> TRUE, content |-> << >>]

\* compare_models, lines 58-112: load both files, flatten, diff
\* lines 114-180: write the report, or touch the file, and return
CompareModels ==
    /\ pc_cmp = "start"
    /\ ~ ExtractRaises(upstream_raw)
    /\ LET current_models == current.models
           current_providers == current.providers
           upstream_models == extract_models_from_models_dev(upstream_raw)
           upstream_providers == DOMAIN upstream_raw
           nm == NewModels(DOMAIN current_models, DOMAIN upstream_models)
           rm == RemovedModels(DOMAIN current_models, DOMAIN upstream_models)
           np == NewProviders(current_providers, upstream_providers)
           rp == RemovedProviders(current_providers, upstream_providers)
           pcs == PricingChanges(current_models, upstream_models)
           changed == HasChanges(nm, rm, np, pcs)
       IN  /\ new_models' = nm
           /\ removed_models' = rm
           /\ new_providers' = np
           /\ removed_providers' = rp
           /\ pricing_changes' = pcs
           /\ has_changes' = changed
           /\ report_file' = IF changed
                               THEN WriteFile(ReportText(np, nm, rm, pcs))
                               ELSE Touch(report_file)
    /\ pc_cmp' = "returned"
    /\ UNCHANGED <<current, upstream_raw, exit_code>>
    /\ UNCHANGED <<bldVars, synVars, globVars>>

\* compare_models, line 66: extract_models_from_models_dev raises, before
\* anything is compared or written
CompareModelsRaise ==
    /\ pc_cmp = "start"
    /\ ExtractRaises(upstream_raw)
    /\ pc_cmp' = "raised"
    /\ UNCHANGED <<current, upstream_raw, report_file, new_models,
                   removed_models, new_providers, removed_providers,
                   pricing_changes, has_changes, exit_code>>
    /\ UNCHANGED <<bldVars, synVars, globVars>>

\* main, lines 207-209: except Exception, the error is printed and the run
\* ends with sys.exit(1)
MainCompareExcept ==
    /\ pc_cmp = "raised"
    /\ exit_code' = 1
    /\ pc_cmp' = "exited"
    /\ UNCHANGED <<current, upstream_raw, report_file, new_models,
                   removed_models, new_providers, removed_providers,
                   pricing_changes, has_changes>>
    /\ UNCHANGED <<bldVars, synVars, globVars>>

\* main: sys.exit(0) whatever compare_models returned
MainCompare ==
    /\ pc_cmp = "returned"
    /\ exit_code' = 0
    /\ pc_cmp' = "exited"
    /\ UNCHANGED <<current, upstream_raw, report_file, new_models,
                   removed_models, new_providers, removed_providers,
                   pricing_changes, has_changes>>
    /\ UNCHANGED <<bldVars, synVars, globVars>>

----------------------------------------------------------------------------
(* Inputs of a comparator run *)

\* at most this many models in the current registry
MaxCurrentModels == 1
\* at most this many models in the upstream snapshot
MaxUpstreamModels == 1

CmpProviders == {"openai", "acme"}
CmpModelIds == { <<"gpt-4">>, <<"gpt-5">> }
CmpKeys == { Key(p, m) : p \in CmpProviders, m \in CmpModelIds }

\* the priced shapes of a current record, in units of 1e-11 per 1k tokens:
\* unpriced, input 0.01 only, output 1.15e-8 only, input 1.2e-8 with
\* output 1.15e-8
CurrentRecords ==
    { [input_cost_per_1k |-> None, output_cost_per_1k |-> None],
      [input_cost_per_1k |-> Some(1000000000), output_cost_per_1k |-> None],
      [input_cost_per_1k |-> None, output_cost_per_1k |-> Some(1150)],
      [input_cost_per_1k |-> Some(1200), output_cost_per_1k |-> Some(1150)] }

\* the priced shapes of an upstream model: no cost, input 0.0000115 only,
\* output 0.000014 only, both 0.0000115, input 0 with output 0.0000115
UpstreamRecords ==
    { [cost |-> [input |-> None, output |-> None]],
      [cost |-> [input |-> Some(1150000), output |-> None]],
      [cost |-> [input |-> None, output |-> Some(1400000)]],
      [cost |-> [input |-> Some(1150000), output |-> Some(1150000)]],
      [cost |-> [input |-> Some(0), output |-> Some(1150000)]] }

CurrentRegistries ==
    { [providers |-> ps, models |-> f] :
        ps \in SUBSET CmpProviders,
        f \in UNION { [K -> CurrentRecords] :
                        K \in { K \in SUBSET CmpKeys : Cardinality(K) <= MaxCurrentModels } } }

ProviderData ==
    { [models |-> g] :
        g \in UNION { [M -> UpstreamRecords] :
                        M \in { M \in SUBSET CmpModelIds : Cardinality(M) <= MaxUpstreamModels } } }

RECURSIVE SumOver(_, _)
SumOver(S, f) ==
    IF S = {} THEN 0
    ELSE LET x == CHOOSE x \in S : TRUE IN f[x] + SumOver(S \ {x}, f)

UpstreamSnapshots ==
    UNION { { d \in [P -> ProviderData] :
                SumOver(P, [p \in P |-> Cardinality(DOMAIN d[p].models)]) <= MaxUpstreamModels } :
            P \in SUBSET CmpProviders }

\* values of an upstream model that are not what the extraction expects:
\* "cost": null, "cost": "free", and a cost whose input is the string "free"
CostNull == [null |-> TRUE]
CostString == [string |-> "free"]
NotANumber == <<"free", "str">>

MalformedRecords ==
    { [cost |-> CostNull],
      [cost |-> CostString],
      [cost |-> [input |-> NotANumber, output |-> None]] }

\* the snapshots with one such model, openai/gpt-4
MalformedSnapshots ==
    { ("openai" :> [models |-> (<<"gpt-4">> :> rec)]) : rec \in MalformedRecords }

\* an earlier run's report left at output_path
StaleReport == ReportText({"acme"}, {}, {}, {})

ReportFiles ==
    { [exists |-> FALSE, content |-> << >>], [exists |-> TRUE, content |-> StaleReport] }

\* no call of glob_to_regex on its own
IdleGlob ==
    /\ glob_pattern = << >>
    /\ glob_regex = None

\* the sync run, not started and with nothing to read
IdleSync ==
    /\ pc_syn = "idle"
    /\ upstream = << >>
    /\ input_file = FALSE
    /\ raw_data = << >>
    /\ next_entry = 1
    /\ models = << >>
    /\ by_provider = << >>
    /\ yaml_file = [exists |-> FALSE]
    /\ json_file = [exists |-> FALSE]
    /\ ts_file = [exists |-> FALSE]
    /\ exit_syn = -1

\* the bundle build, not started and with nothing to read
IdleBundle ==
    /\ pc_bld = "idle"
    /\ registry_file = [exists |-> FALSE]
    /\ config_files = << >>
    /\ models_file = [exists |-> FALSE]
    /\ minify = FALSE
    /\ glob_order = << >>
    /\ provider_configs = << >>
    /\ bundle = << >>
    /\ out_primary = [exists |-> FALSE]
    /\ out_min = [exists |-> FALSE]
    /\ stderr = << >>
    /\ run = "first"
    /\ now = 1
    /\ first_bundle = << >>

InitCompare ==
    /\ IdleGlob
    /\ IdleBundle
    /\ IdleSync
    /\ pc_cmp = "start"
    /\ current \in CurrentRegistries
    /\ upstream_raw \in UpstreamSnapshots \cup MalformedSnapshots
    /\ report_file \in ReportFiles
    /\ new_models = {} /\ removed_models = {}
    /\ new_providers = {} /\ removed_providers = {}
    /\ pricing_changes = {}
    /\ has_changes = FALSE
    /\ exit_code = -1

NextCompare ==
    CompareModels \/ CompareModelsRaise \/ MainCompare \/ MainCompareExcept

SpecCompare == InitCompare /\ [][NextCompare]_vars

----------------------------------------------------------------------------
(* build-bundle.py *)

\* d[k] = v on a dict kept as a function (json.dump(..., sort_keys=True)
\* writes a dict's keys sorted, so their insertion order is not observable)
Put(d, k, v) == [ x \in (DOMAIN d) \cup {k} |-> IF x = k THEN v ELSE d[x] ]

\* str.replace(tok, ""), on a string of tokens
Remove(str, tok) == LET keep(t) == t # tok IN SelectSeq(str, keep)

\* str.rstrip("/")
RECURSIVE RStripSlash(_)
RStripSlash(str) ==
    IF str # << >> /\ str[Len(str)] = "/"
        THEN RStripSlash(SubSeq(str, 1, Len(str) - 1))
        ELSE str

\* url.replace("https://", "").replace("http://", "").rstrip("/")
ExtractDomain(url) == RStripSlash(Remove(Remove(url, "https://"), "http://"))

\* re.escape(pattern).replace(r"\*", ".*"), then f"^{escaped}$": re.escape
\* puts a backslash before ".", "*" and "-" and leaves alphanumerics alone
EscapeToken_NoDot(t) == IF t = "*" THEN "\\*" ELSE t
EscapeToken(t) == IF t \in {".", "*", "-"} THEN "\\" \o t ELSE t

glob_to_regex(pattern) ==
    LET escaped == [ i \in 1..Len(pattern) |-> EscapeToken(pattern[i]) ]
        replaced == [ i \in 1..Len(pattern) |->
                        IF escaped[i] = "\\*" THEN ".*" ELSE escaped[i] ]
    IN  <<"^">> \o replaced \o <<"$">>

\* providers[provider_id] = config on the insertion-ordered dict: a key
\* already present keeps its place and takes the new value
DictSet(d, k, v) ==
    IF \E i \in 1..Len(d) : d[i].id = k
        THEN [ i \in 1..Len(d) |-> IF d[i].id = k THEN [id |-> k, config |-> v] ELSE d[i] ]
        ELSE Append(d, [id |-> k, config |-> v])

\* load_provider_configs, over the files in the order glob yields them:
\* the dict of configs and the warnings printed
RECURSIVE LoadConfigs(_, _, _)
LoadConfigs(files, order, acc) ==
    IF order = << >> THEN acc
    ELSE LET config == files[Head(order)]
             next == IF ~ config.loads
                       THEN [acc EXCEPT !.warnings =
                                Append(@, [kind |-> "load_failed", file |-> Head(order)])]
                     ELSE IF config.provider = None THEN acc
                     ELSE [acc EXCEPT !.providers = DictSet(@, config.provider[1], config)]
         IN  LoadConfigs(files, Tail(order), next)

load_provider_configs(files, order) ==
    LoadConfigs(files, order, [providers |-> << >>, warnings |-> << >>])

\* the inner loop of build_domain_index: index[domain] = provider_id
RECURSIVE IndexUrls(_, _, _)
IndexUrls(index, provider_id, urls) ==
    IF urls = << >> THEN index
    ELSE IndexUrls(Put(index, ExtractDomain(Head(urls)), provider_id),
                   provider_id, Tail(urls))

RECURSIVE IndexConfigs(_, _)
IndexConfigs(index, configs) ==
    IF configs = << >> THEN index
    ELSE IndexConfigs(IndexUrls(index, Head(configs).id, Head(configs).config.base_urls),
                      Tail(configs))

\* build_domain_index: the registry's table, then every provider's base URLs
build_domain_index(registry, configs) ==
    IndexConfigs(registry.domain_lookup, configs)

\* the patterns one provider config contributes
RECURSIVE ConfigPatterns(_, _)
ConfigPatterns(provider_id, domains) ==
    IF domains = << >> THEN << >>
    ELSE ( IF \E i \in 1..Len(Head(domains)) : Head(domains)[i] = "*"
             THEN << [ pattern |-> Head(domains),
                       provider |-> provider_id,
                       regex |-> glob_to_regex(Head(domains)) ] >>
             ELSE << >> )
         \o ConfigPatterns(provider_id, Tail(domains))

RECURSIVE AllConfigPatterns(_)
AllConfigPatterns(configs) ==
    IF configs = << >> THEN << >>
    ELSE ConfigPatterns(Head(configs).id, Head(configs).config.domains)
         \o AllConfigPatterns(Tail(configs))

\* build_domain_patterns: the registry's patterns, then the providers'
build_domain_patterns(registry, configs) ==
    [ i \in 1..Len(registry.domain_patterns) |->
        [ pattern |-> registry.domain_patterns[i].pattern,
          provider |-> registry.domain_patterns[i].provider,
          regex |-> glob_to_regex(registry.domain_patterns[i].pattern) ] ]
    \o AllConfigPatterns(configs)

\* build_extraction_rules: one entry per provider config with "endpoints"
build_extraction_rules(configs) ==
    LET with == { i \in 1..Len(configs) : configs[i].config.endpoints # None }
    IN  [ id \in { configs[i].id : i \in with } |->
            LET i == CHOOSE i \in with : configs[i].id = id
            IN  [endpoints |-> configs[i].config.endpoints[1]] ]

\* build_fingerprints: one entry per provider config with "fingerprints"
build_fingerprints(configs) ==
    LET with == { i \in 1..Len(configs) : configs[i].config.fingerprints # None }
    IN  [ id \in { configs[i].id : i \in with } |->
            LET i == CHOOSE i \in with : configs[i].id = id
            IN  configs[i].config.fingerprints[1] ]

\* load_models: the registry file, or the empty default when it is absent
load_models(file) ==
    IF file.exists THEN file.data
    ELSE [models |-> << >>, providers |-> << >>, stats |-> << >>]

\* build_bundle, given what the three loaders returned
BundleDocument(registry, configs, loaded_models, t) ==
    [ version |-> registry.version,
      bundle_version |-> "1.0.0",
      generated_at |-> t,
      source |-> "oisp-spec",
      providers |-> [ id \in DOMAIN registry.providers |->
                        [id |-> id, display_name |-> registry.providers[id].display_name] ],
      domain_index |-> build_domain_index(registry, configs),
      domain_patterns |-> build_domain_patterns(registry, configs),
      extraction_rules |-> build_extraction_rules(configs),
      fingerprints |-> build_fingerprints(configs),
      models |-> loaded_models.models,
      model_stats |-> loaded_models.stats ]

\* the orders in which glob may yield a set of files
Orders(S) ==
    { o \in [1..Cardinality(S) -> S] : \A i, j \in 1..Cardinality(S) : o[i] = o[j] => i = j }

\* main, line 238: bundle = build_bundle().  load_registry raises when
\* registry.yaml is missing and the run ends there with a traceback.
BuildBundleCrash ==
    /\ pc_bld = "start"
    /\ ~ registry_file.exists
    /\ pc_bld' = "crashed"
    /\ stderr' = Append(stderr, [kind |-> "traceback", file |-> 0])
    /\ UNCHANGED <<registry_file, config_files, models_file, minify, glob_order,
                   provider_configs, bundle, out_primary, out_min, run, now,
                   first_bundle>>
    /\ UNCHANGED <<cmpVars, synVars, globVars>>

BuildBundle ==
    /\ pc_bld = "start"
    /\ registry_file.exists
    /\ \E order \in Orders(DOMAIN config_files) :
         LET loaded == load_provider_configs(config_files, order)
         IN  /\ glob_order' = order
             /\ provider_configs' = loaded.providers
             /\ stderr' = stderr \o loaded.warnings
             /\ bundle' = BundleDocument(registry_file.data, loaded.providers,
                                         load_models(models_file), now)
    /\ pc_bld' = "built"
    /\ UNCHANGED <<registry_file, config_files, models_file, minify, out_primary,
                   out_min, run, now, first_bundle>>
    /\ UNCHANGED <<cmpVars, synVars, globVars>>

\* main, lines 241-246: json.dump(bundle, f, indent=indent, sort_keys=True)
WriteBundle ==
    /\ pc_bld = "built"
    /\ out_primary' = [ exists |-> TRUE, doc |-> bundle,
                        indent |-> IF minify THEN None ELSE Some(2),
                        separators |-> IF minify THEN <<", ", ": ">> ELSE <<",", ": ">> ]
    /\ pc_bld' = IF minify THEN "done" ELSE "primary_written"
    /\ UNCHANGED <<registry_file, config_files, models_file, minify, glob_order,
                   provider_configs, bundle, out_min, stderr, run, now, first_bundle>>
    /\ UNCHANGED <<cmpVars, synVars, globVars>>

\* main, lines 257-260: the minified twin, unless --minify was given
WriteMinified ==
    /\ pc_bld = "primary_written"
    /\ out_min' = [ exists |-> TRUE, doc |-> bundle,
                    indent |-> None, separators |-> <<",", ":">> ]
    /\ pc_bld' = "done"
    /\ UNCHANGED <<registry_file, config_files, models_file, minify, glob_order,
                   provider_configs, bundle, out_primary, stderr, run, now, first_bundle>>
    /\ UNCHANGED <<cmpVars, synVars, globVars>>

\* the script is run a second time, later, over the same input files
RunAgain ==
    /\ pc_bld = "done"
    /\ run = "first"
    /\ run' = "second"
    /\ first_bundle' = bundle
    /\ now' = now + 1
    /\ stderr' = << >>
    /\ pc_bld' = "start"
    /\ UNCHANGED <<registry_file, config_files, models_file, minify, glob_order,
                   provider_configs, bundle, out_primary, out_min>>
    /\ UNCHANGED <<cmpVars, synVars, globVars>>

----------------------------------------------------------------------------
(* Inputs of a bundle build *)

\* at most this many provider configuration files beside registry.yaml
MaxConfigFiles == 2

HostX == <<"api", ".", "x", ".", "com">>
UrlX == <<"https://">> \o HostX
UrlXSlash == <<"https://">> \o HostX \o <<"/">>
UrlY == <<"http://", "api", ".", "y", ".", "com">>
PatX == <<"*", ".", "x", ".", "com">>
PatY == <<"*", ".", "y", ".", "com">>
UrlZPath == <<"https://", "api", ".", "z", ".", "com", "/", "v1">>
UrlZUpper == <<"https://", "API", ".", "z", ".", "com">>

\* the provider configuration files tried: two providers that both declare
\* the host api.x.com, a second file of provider p2, a provider whose base
\* URLs have a path and an upper-case host, a file without a "provider"
\* key and a file that does not load
ConfigShapes ==
    { [ loads |-> TRUE, provider |-> Some("p3"), base_urls |-> <<UrlZPath, UrlZUpper>>,
        domains |-> << >>, endpoints |-> None, fingerprints |-> None ] } \cup
    { [ loads |-> TRUE, provider |-> Some("p1"), base_urls |-> <<UrlX>>,
        domains |-> <<PatX, HostX>>, endpoints |-> Some("chat"),
        fingerprints |-> Some("headers") ],
      [ loads |-> TRUE, provider |-> Some("p2"), base_urls |-> <<UrlXSlash, UrlY>>,
        domains |-> <<PatY>>, endpoints |-> None, fingerprints |-> None ],
      [ loads |-> TRUE, provider |-> Some("p2"), base_urls |-> <<UrlY>>,
        domains |-> << >>, endpoints |-> Some("chat"), fingerprints |-> None ],
      [ loads |-> TRUE, provider |-> None, base_urls |-> << >>,
        domains |-> << >>, endpoints |-> None, fingerprints |-> None ],
      [ loads |-> FALSE, provider |-> None, base_urls |-> << >>,
        domains |-> << >>, endpoints |-> None, fingerprints |-> None ] }

ConfigFileSets ==
    UNION { [F -> ConfigShapes] : F \in SUBSET (1..MaxConfigFiles) }

RegistryFiles ==
    { [exists |-> FALSE],
      [ exists |-> TRUE,
        data |-> [ version |-> "0.1", domain_lookup |-> << >>,
                   domain_patterns |-> << >>, providers |-> << >> ] ],
      [ exists |-> TRUE,
        data |-> [ version |-> "0.1",
                   domain_lookup |-> (HostX :> "p1"),
                   domain_patterns |-> << [pattern |-> PatX, provider |-> "p1"] >>,
                   providers |-> ("p1" :> [display_name |-> "P1"]) ] ] }

ModelsFiles ==
    { [exists |-> FALSE],
      [ exists |-> TRUE,
        data |-> [ models |-> << >>, providers |-> << >>,
                   stats |-> [total_models |-> 0, providers |-> 0] ] ],
      [ exists |-> TRUE,
        data |-> [ models |-> (Key("openai", <<"gpt-4">>) :>
                                  [id |-> <<"gpt-4">>, provider |-> "openai"]),
                   providers |-> ("openai" :> [model_count |-> 1]),
                   stats |-> [total_models |-> 1, providers |-> 1] ] ] }

\* the comparator, not started and with nothing to read
IdleCompare ==
    /\ pc_cmp = "idle"
    /\ current = [providers |-> {}, models |-> << >>]
    /\ upstream_raw = << >>
    /\ report_file = [exists |-> FALSE, content |-> << >>]
    /\ new_models = {} /\ removed_models = {}
    /\ new_providers = {} /\ removed_providers = {}
    /\ pricing_changes = {}
    /\ has_changes = FALSE
    /\ exit_code = -1

InitBundle ==
    /\ IdleGlob
    /\ IdleCompare
    /\ IdleSync
    /\ pc_bld = "start"
    /\ registry_file \in RegistryFiles
    /\ config_files \in ConfigFileSets
    /\ models_file \in ModelsFiles
    /\ minify \in BOOLEAN
    /\ glob_order = << >>
    /\ provider_configs = << >>
    /\ bundle = << >>
    /\ out_primary = [exists |-> FALSE]
    /\ out_min = [exists |-> FALSE]
    /\ stderr = << >>
    /\ run = "first"
    /\ now = 1
    /\ first_bundle = << >>

NextBundle ==
    BuildBundleCrash \/ BuildBundle \/ WriteBundle \/ WriteMinified \/ RunAgain

SpecBundle == InitBundle /\ [][NextBundle]_vars

----------------------------------------------------------------------------
(* sync-models.py.  Per-token costs count units of 1e-13, per-1k costs     *)
(* units of 1e-8, so that round(c * 1000, 8) is a rounding division by 100 *)

\* PROVIDER_MAPPING
ProviderPairs ==
    { <<"openai", "openai">>, <<"anthropic", "anthropic">>, <<"gemini", "google">>,
      <<"vertex_ai", "google">>, <<"vertex_ai-language-models", "google">>,
      <<"azure", "azure_openai">>, <<"azure_ai", "azure_openai">>,
      <<"bedrock", "aws_bedrock">>, <<"sagemaker", "aws_sagemaker">>,
      <<"cohere", "cohere">>, <<"cohere_chat", "cohere">>, <<"mistral", "mistral">>,
      <<"groq", "groq">>, <<"together_ai", "together">>, <<"fireworks_ai", "fireworks">>,
      <<"replicate", "replicate">>, <<"huggingface", "huggingface">>,
      <<"ollama", "ollama">>, <<"ollama_chat", "ollama">>, <<"lm_studio", "lmstudio">>,
      <<"vllm", "vllm">>, <<"deepseek", "deepseek">>, <<"perplexity", "perplexity">>,
      <<"anyscale", "anyscale">>, <<"openrouter", "openrouter">>, <<"ai21", "ai21">>,
      <<"nlp_cloud", "nlp_cloud">>, <<"aleph_alpha", "aleph_alpha">>,
      <<"cloudflare", "cloudflare">>, <<"voyage", "voyage">>,
      <<"xinference", "xinference">> }

\* dict.get(key, default) on a table of (key, value) pairs
Lookup(pairs, key, default) ==
    IF \E q \in pairs : q[1] = key
        THEN (CHOOSE q \in pairs : q[1] = key)[2]
        ELSE default

\* CAPABILITY_MAPPING, in its order
CAPABILITY_MAPPING ==
    << <<"supports_vision", "vision">>,
       <<"supports_function_calling", "function_calling">>,
       <<"supports_parallel_function_calling", "parallel_function_calling">>,
       <<"supports_system_messages", "system_messages">>,
       <<"supports_response_schema", "json_mode">>,
       <<"supports_prompt_caching", "prompt_caching">>,
       <<"supports_reasoning", "reasoning">>,
       <<"supports_web_search", "web_search">>,
       <<"supports_audio_input", "audio_input">>,
       <<"supports_audio_output", "audio_output">> >>

\* MODE_MAPPING
ModePairs ==
    { <<"chat", "chat">>, <<"completion", "completion">>, <<"embedding", "embedding">>,
      <<"image_generation", "image">>, <<"audio_transcription", "audio_transcription">>,
      <<"audio_speech", "audio_speech">>, <<"moderation", "moderation">>,
      <<"rerank", "rerank">> }

\* str.startswith(prefix), on strings of tokens
StartsWith(str, prefix) ==
    Len(prefix) <= Len(str) /\ SubSeq(str, 1, Len(prefix)) = prefix

\* the prefixes of line 131
SizePrefixes == { <<"1024-x-">>, <<"512-x-">>, <<"256-x-">> }

\* round(cost_per_token * 1000, 8): to the nearest, a tie to the even
\* neighbour
RoundDiv(n, d) ==
    LET q == n \div d
        r == n % d
    IN  IF 2 * r < d THEN q
        ELSE IF 2 * r > d THEN q + 1
        ELSE IF q % 2 = 0 THEN q ELSE q + 1

\* lines 165-168: the field is set when the cost is present and not falsy
CostPer1k(cost_per_token) ==
    IF cost_per_token = None \/ cost_per_token = Some(0)
        THEN None
        ELSE Some(RoundDiv(cost_per_token[1], 100))

\* lines 141-146: strip the first of the two prefixes the id starts with
ModelName(model_id, litellm_provider, provider) ==
    IF StartsWith(model_id, <<litellm_provider, "/">>)
        THEN SubSeq(model_id, 3, Len(model_id))
    ELSE IF StartsWith(model_id, <<provider, "/">>)
        THEN SubSeq(model_id, 3, Len(model_id))
    ELSE model_id

\* lines 171-176: the capabilities, in the order of CAPABILITY_MAPPING
RECURSIVE Capabilities(_, _)
Capabilities(flags, i) ==
    IF i > Len(CAPABILITY_MAPPING) THEN << >>
    ELSE ( IF CAPABILITY_MAPPING[i][1] \in flags
             THEN << CAPABILITY_MAPPING[i][2] >> ELSE << >> )
         \o Capabilities(flags, i + 1)

\* provider = PROVIDER_MAPPING.get(litellm_provider, litellm_provider)
MapProvider_Raw(litellm_provider) == litellm_provider
MapProvider(litellm_provider) == Lookup(ProviderPairs, litellm_provider, litellm_provider)

\* parse_model_entry: None, or the model_info dict (a key the code leaves
\* out of the dict is None here)
parse_model_entry(model_id, entry) ==
    IF model_id = <<"sample_spec">> THEN None
    ELSE IF \E prefix \in SizePrefixes : StartsWith(model_id, prefix) THEN None
    ELSE IF entry.litellm_provider = "" THEN None
    ELSE LET provider == MapProvider(entry.litellm_provider)
             mode == IF entry.mode = None THEN "chat" ELSE entry.mode[1]
             capabilities == Capabilities(entry.flags, 1)
             dated == entry.deprecation_date # None /\ entry.deprecation_date # Some("")
         IN  Some([ id |-> ModelName(model_id, entry.litellm_provider, provider),
                    litellm_id |-> model_id,
                    provider |-> provider,
                    mode |-> Lookup(ModePairs, mode, mode),
                    max_input_tokens |->
                        IF entry.max_input_tokens # None THEN entry.max_input_tokens
                        ELSE entry.max_tokens,
                    max_output_tokens |-> entry.max_output_tokens,
                    input_cost_per_1k |-> CostPer1k(entry.input_cost_per_token),
                    output_cost_per_1k |-> CostPer1k(entry.output_cost_per_token),
                    capabilities |-> IF capabilities = << >> THEN None
                                     ELSE Some(capabilities),
                    deprecated |-> IF dated THEN Some(TRUE) ELSE None,
                    deprecation_date |-> IF dated THEN entry.deprecation_date ELSE None ])

\* the order of Python strings, on the tokens the catalog ids are made of
TokenOrder ==
    << "/", "1024", "1024-x-", "256", "256-x-", "512", "512-x-", "dall-e-2",
       "g", "gemini", "google", "sample_spec", "vertex_ai", "zzz" >>

Rank(tok) == CHOOSE i \in 1..Len(TokenOrder) : TokenOrder[i] = tok

RECURSIVE StrLess(_, _)
StrLess(a, b) ==
    IF b = << >> THEN FALSE
    ELSE IF a = << >> THEN TRUE
    ELSE IF Head(a) = Head(b) THEN StrLess(Tail(a), Tail(b))
    ELSE Rank(Head(a)) < Rank(Head(b))

\* list.sort(key=lambda m: m.get("id", "")): stable, so a model goes behind
\* the models whose id is not greater
InsertSorted(group, model) ==
    LET before == { i \in 1..Len(group) : ~ StrLess(model.id, group[i].id) }
        n == Cardinality(before)
    IN  SubSeq(group, 1, n) \o <<model>> \o SubSeq(group, n + 1, Len(group))

RECURSIVE SortById(_)
SortById(group) ==
    IF group = << >> THEN << >>
    ELSE InsertSorted(SortById(SubSeq(group, 1, Len(group) - 1)), group[Len(group)])

\* group_by_provider: the models of each provider, sorted by id
group_by_provider(all_models) ==
    [ provider \in { all_models[i].provider : i \in 1..Len(all_models) } |->
        LET of(m) == m.provider = provider
        IN  SortById(SelectSeq(all_models, of)) ]

\* generate_json, lines 284-287: output["models"][key] = model, in the
\* order of all_models
RECURSIVE ModelsLookup_FirstWins(_)
ModelsLookup_FirstWins(all_models) ==
    IF all_models = << >> THEN << >>
    ELSE LET rest == ModelsLookup_FirstWins(Tail(all_models))
             first == Head(all_models)
         IN  Put(rest, <<first.provider, "/">> \o first.id, first)

RECURSIVE ModelsLookup(_)
ModelsLookup(all_models) ==
    IF all_models = << >> THEN << >>
    ELSE LET last == all_models[Len(all_models)]
         IN  Put(ModelsLookup(SubSeq(all_models, 1, Len(all_models) - 1)),
                 <<last.provider, "/">> \o last.id, last)

\* generate_json: the canonical registry document
RegistryDocument(models_by_provider, all_models, t) ==
    [ version |-> "0.1",
      generated_at |-> t,
      source |-> "litellm",
      stats |-> [ total_models |-> Len(all_models),
                  providers |-> Cardinality(DOMAIN models_by_provider) ],
      providers |-> [ provider \in DOMAIN models_by_provider |->
                        [ model_count |-> Len(models_by_provider[provider]),
                          models |-> [ i \in 1..Len(models_by_provider[provider]) |->
                                         models_by_provider[provider][i].id ] ] ],
      models |-> ModelsLookup(all_models) ]

\* fetch_litellm_data, lines 96-101: the local file is read
FetchLocal ==
    /\ pc_syn = "start"
    /\ input_file
    /\ raw_data' = upstream
    /\ pc_syn' = "parsing"
    /\ UNCHANGED <<upstream, input_file, next_entry, models, by_provider,
                   yaml_file, json_file, ts_file, exit_syn>>
    /\ UNCHANGED <<cmpVars, bldVars, globVars>>

\* fetch_litellm_data, lines 103-115: the catalog is fetched
FetchRemote ==
    /\ pc_syn = "start"
    /\ ~ input_file
    /\ raw_data' = upstream
    /\ pc_syn' = "parsing"
    /\ UNCHANGED <<upstream, input_file, next_entry, models, by_provider,
                   yaml_file, json_file, ts_file, exit_syn>>
    /\ UNCHANGED <<cmpVars, bldVars, globVars>>

\* a fetch failure that falls back to writing an empty registry
FetchFail_EmptyRegistry ==
    /\ pc_syn = "start"
    /\ ~ input_file
    /\ json_file' = [exists |-> TRUE, doc |-> RegistryDocument(<< >>, << >>, now)]
    /\ exit_syn' = 1
    /\ pc_syn' = "exited"
    /\ UNCHANGED <<upstream, input_file, raw_data, next_entry, models, by_provider,
                   yaml_file, ts_file>>
    /\ UNCHANGED <<cmpVars, bldVars, globVars>>

\* fetch_litellm_data, lines 104-121: urlopen or response.read() fails.  A
\* URLError is caught and the run ends with sys.exit(1); a timeout while
\* reading or a truncated body raises out of main, and the interpreter
\* ends with status 1 as well.  Nothing but the output directory was made.
FetchFail ==
    /\ pc_syn = "start"
    /\ ~ input_file
    /\ exit_syn' = 1
    /\ pc_syn' = "exited"
    /\ UNCHANGED <<upstream, input_file, raw_data, next_entry, models, by_provider,
                   yaml_file, json_file, ts_file>>
    /\ UNCHANGED <<cmpVars, bldVars, globVars>>

\* isinstance(entry, dict): a JSON value that is not an object has no .get
IsMapping(entry) == "litellm_provider" \in DOMAIN entry

\* parse_model_entry raises: past the two checks of the id, line 134 calls
\* entry.get, an AttributeError when the entry is not a mapping
ParseRaises(model_id, entry) ==
    /\ model_id # <<"sample_spec">>
    /\ ~ \E prefix \in SizePrefixes : StartsWith(model_id, prefix)
    /\ ~ IsMapping(entry)

\* main, lines 432-435: parse_model_entry raises, nothing in main catches
\* it and the run ends with a traceback and status 1
ParseEntryRaise ==
    /\ pc_syn = "parsing"
    /\ next_entry <= Len(raw_data)
    /\ ParseRaises(raw_data[next_entry].model_id, raw_data[next_entry].entry)
    /\ exit_syn' = 1
    /\ pc_syn' = "crashed"
    /\ UNCHANGED <<upstream, input_file, raw_data, next_entry, models, by_provider,
                   yaml_file, json_file, ts_file>>
    /\ UNCHANGED <<cmpVars, bldVars, globVars>>

\* main, lines 432-435: one turn of the loop over raw_data.items()
ParseEntry ==
    /\ pc_syn = "parsing"
    /\ next_entry <= Len(raw_data)
    /\ ~ ParseRaises(raw_data[next_entry].model_id, raw_data[next_entry].entry)
    /\ LET parsed == parse_model_entry(raw_data[next_entry].model_id,
                                       raw_data[next_entry].entry)
       IN  models' = IF parsed # None THEN Append(models, parsed[1]) ELSE models
    /\ next_entry' = next_entry + 1
    /\ UNCHANGED <<pc_syn, upstream, input_file, raw_data, by_provider,
                   yaml_file, json_file, ts_file, exit_syn>>
    /\ UNCHANGED <<cmpVars, bldVars, globVars>>

\* main, line 440: by_provider = group_by_provider(models)
GroupByProvider ==
    /\ pc_syn = "parsing"
    /\ next_entry > Len(raw_data)
    /\ by_provider' = group_by_provider(models)
    /\ pc_syn' = "grouped"
    /\ UNCHANGED <<upstream, input_file, raw_data, next_entry, models,
                   yaml_file, json_file, ts_file, exit_syn>>
    /\ UNCHANGED <<cmpVars, bldVars, globVars>>

\* generate_yaml: the providers in sorted order, each with its models
GenerateYaml ==
    /\ pc_syn = "grouped"
    /\ yaml_file' = [ exists |-> TRUE,
                      doc |-> [ version |-> "0.1", source |-> "litellm",
                                providers |-> by_provider ] ]
    /\ pc_syn' = "yaml_written"
    /\ UNCHANGED <<upstream, input_file, raw_data, next_entry, models, by_provider,
                   json_file, ts_file, exit_syn>>
    /\ UNCHANGED <<cmpVars, bldVars, globVars>>

\* generate_json
GenerateJson ==
    /\ pc_syn = "yaml_written"
    /\ json_file' = [exists |-> TRUE, doc |-> RegistryDocument(by_provider, models, now)]
    /\ pc_syn' = "json_written"
    /\ UNCHANGED <<upstream, input_file, raw_data, next_entry, models, by_provider,
                   yaml_file, ts_file, exit_syn>>
    /\ UNCHANGED <<cmpVars, bldVars, globVars>>

\* generate_typescript_types, then the summary; the run ends with status 0
GenerateTypes ==
    /\ pc_syn = "json_written"
    /\ ts_file' = [exists |-> TRUE, doc |-> "// OISP Model Registry Types"]
    /\ exit_syn' = 0
    /\ pc_syn' = "exited"
    /\ UNCHANGED <<upstream, input_file, raw_data, next_entry, models, by_provider,
                   yaml_file, json_file>>
    /\ UNCHANGED <<cmpVars, bldVars, globVars>>

----------------------------------------------------------------------------
(* Inputs of a sync run *)

\* at most this many entries in the upstream catalog
MaxUpstreamEntries == 2

CatalogIds ==
    { <<"sample_spec">>,
      <<"1024-x-", "1024", "/", "dall-e-2">>,
      <<"512-x-", "512", "/", "dall-e-2">>,
      <<"256-x-", "256", "/", "dall-e-2">>,
      <<"g">>,
      <<"gemini", "/", "g">>,
      <<"google", "/", "g">>,
      <<"vertex_ai", "/", "g">> }

\* the attribute bags tried: a priced gemini chat model with a capability,
\* a deprecated vertex_ai image model with a zero output cost, a model of
\* a provider the alias table lacks, and a bag without a provider tag
CatalogEntries ==
    { [ litellm_provider |-> "gemini", mode |-> None,
        max_input_tokens |-> None, max_output_tokens |-> None, max_tokens |-> Some(8192),
        input_cost_per_token |-> Some(20000000), output_cost_per_token |-> None,
        flags |-> {"supports_vision", "supports_reasoning"}, deprecation_date |-> None ],
      [ litellm_provider |-> "vertex_ai", mode |-> Some("image_generation"),
        max_input_tokens |-> Some(4096), max_output_tokens |-> Some(1024), max_tokens |-> Some(1024),
        input_cost_per_token |-> Some(12350), output_cost_per_token |-> Some(0),
        flags |-> {}, deprecation_date |-> Some("2025-01-01") ],
      [ litellm_provider |-> "zzz", mode |-> Some("responses"),
        max_input_tokens |-> None, max_output_tokens |-> None, max_tokens |-> None,
        input_cost_per_token |-> None, output_cost_per_token |-> Some(12450),
        flags |-> {"supports_unknown"}, deprecation_date |-> Some("") ],
      [ litellm_provider |-> "", mode |-> None,
        max_input_tokens |-> None, max_output_tokens |-> None, max_tokens |-> None,
        input_cost_per_token |-> None, output_cost_per_token |-> None,
        flags |-> {}, deprecation_date |-> None ] }

\* a catalog value that is not a mapping: a JSON string
NotAMapping == [string |-> "n/a"]

\* the (key, value) pairs of a catalog: every id with every attribute bag,
\* and a value that is not a mapping under the sentinel id and under "g"
CatalogItems ==
    [model_id : CatalogIds, entry : CatalogEntries]
    \cup [model_id : {<<"sample_spec">>, <<"g">>}, entry : {NotAMapping}]

\* the catalogs: a JSON object has each key once, in the order of the file
Catalogs ==
    UNION { { c \in [1..n -> CatalogItems] :
                \A i, j \in 1..n : c[i].model_id = c[j].model_id => i = j } :
            n \in 0..MaxUpstreamEntries }

\* the output directory before the run: empty, or holding the three files
\* of an earlier run
OutputDirs ==
    { [ yaml |-> [exists |-> FALSE], json |-> [exists |-> FALSE],
        ts |-> [exists |-> FALSE] ],
      [ yaml |-> [exists |-> TRUE, doc |-> [version |-> "previous"]],
        json |-> [exists |-> TRUE, doc |-> [version |-> "previous"]],
        ts |-> [exists |-> TRUE, doc |-> "previous"] ] }

InitSync ==
    /\ IdleGlob
    /\ IdleCompare
    /\ IdleBundle
    /\ pc_syn = "start"
    /\ upstream \in Catalogs
    /\ input_file \in BOOLEAN
    /\ raw_data = << >>
    /\ next_entry = 1
    /\ models = << >>
    /\ by_provider = << >>
    /\ \E dir \in OutputDirs :
           /\ yaml_file = dir.yaml
           /\ json_file = dir.json
           /\ ts_file = dir.ts
    /\ exit_syn = -1

NextSync ==
    \/ FetchLocal \/ FetchRemote \/ FetchFail
    \/ ParseEntry \/ ParseEntryRaise \/ GroupByProvider
    \/ GenerateYaml \/ GenerateJson \/ GenerateTypes

SpecSync == InitSync /\ [][NextSync]_vars

----------------------------------------------------------------------------
(* glob_to_regex, called on its own over bounded patterns *)

\* the patterns tried have at most this many tokens
MaxPatLen == 4

PatTokens == {"*", ".", "x"}

PatAzure == <<"*", ".", "azure", ".", "example", ".", "com">>
PatRegion == <<"api", "-", "*", ".", "x", ".", "*">>

\* every short pattern over PatTokens and four longer ones
GlobPatterns ==
    UNION { [1..n -> PatTokens] : n \in 0..MaxPatLen }
    \cup { PatX, PatY, PatAzure, PatRegion }

\* regex = glob_to_regex(pattern)
GlobToRegex ==
    /\ glob_regex = None
    /\ glob_regex' = Some(glob_to_regex(glob_pattern))
    /\ UNCHANGED glob_pattern
    /\ UNCHANGED <<cmpVars, bldVars, synVars>>

InitGlob ==
    /\ IdleCompare
    /\ IdleBundle
    /\ IdleSync
    /\ glob_pattern \in GlobPatterns
    /\ glob_regex = None

NextGlob == GlobToRegex

SpecGlob == InitGlob /\ [][NextGlob]_vars

----------------------------------------------------------------------------
(* Claims about the drift comparator, checked under SpecCompare *)

\* compare_models has returned (a run that raised ends with status 1)
CompareReturned == pc_cmp = "returned" \/ (pc_cmp = "exited" /\ exit_code = 0)

\* C2 (as stated): compare_models returns true iff at least one of
\* new_providers, removed_providers, new_models, removed_models and the
\* pricing changes is non-empty.
C2_ChangedIffAnyDrift ==
    CompareReturned =>
        ( has_changes <=> ( \/ new_providers # {}
                            \/ removed_providers # {}
                            \/ new_models # {}
                            \/ removed_models # {}
                            \/ pricing_changes # {} ) )

\* the providers of the upstream snapshot that the current registry lacks
UpstreamOnlyProviders == (DOMAIN upstream_raw) \ current.providers

\* C3 (as stated): a provider of the upstream snapshot absent from the
\* current registry's providers is in new_providers and none of its model
\* keys is in new_models.
C3_NewProviderModelsNotInNewModels ==
    CompareReturned =>
        \A p \in UpstreamOnlyProviders :
            /\ p \in new_providers
            /\ \A m \in DOMAIN upstream_raw[p].models : Key(p, m) \notin new_models

\* C3 (amended): such a provider is in new_providers, the written report
\* counts every new provider once, and each of the provider's model keys is
\* in new_models exactly when the current registry's models lack the key.
C3_NewProviderReported ==
    CompareReturned =>
        \A p \in UpstreamOnlyProviders :
            /\ p \in new_providers
            /\ has_changes
            /\ [section |-> "## New Providers", count |-> Cardinality(UpstreamOnlyProviders)]
                   \in { report_file.content[i] : i \in 1..Len(report_file.content) }
            /\ \A m \in DOMAIN upstream_raw[p].models :
                   Key(p, m) \in new_models <=> Key(p, m) \notin DOMAIN current.models

\* C3 witness: a run over an upstream-only provider that has a model, which
\* is reported under new_models as well.
C3_Witness ==
    /\ CompareReturned
    /\ \E p \in UpstreamOnlyProviders :
           \E m \in DOMAIN upstream_raw[p].models : Key(p, m) \in new_models

\* C4 (as stated): when compare_models returns false, the report file
\* exists and is empty, whatever the path held before.
C4_NoChangeReportEmpty ==
    (CompareReturned /\ ~ has_changes) =>
        (report_file.exists /\ report_file.content = << >>)

\* C5 (as stated): for a key in both registries a PricingChange is recorded
\* iff the input costs or the output costs are unequal under the tolerance
\* rule.
C5_PricingChangeIffUnequal ==
    CompareReturned =>
        LET upstream_models == extract_models_from_models_dev(upstream_raw)
        IN  \A k \in DOMAIN current.models \cap DOMAIN upstream_models :
                (\E ch \in pricing_changes : ch.model = k)
                <=> ( \/ ~ close(current.models[k].input_cost_per_1k,
                                 upstream_models[k].input_cost_per_1k)
                      \/ ~ close(current.models[k].output_cost_per_1k,
                                 upstream_models[k].output_cost_per_1k) )

\* the example of C6: openai/gpt-4 priced 0.01 per 1k input tokens in the
\* current registry, upstream cost.input 0.0000115
C6_Scenario ==
    /\ Key("openai", <<"gpt-4">>) \in DOMAIN current.models
    /\ current.models[Key("openai", <<"gpt-4">>)].input_cost_per_1k = Some(1000000000)
    /\ "openai" \in DOMAIN upstream_raw
    /\ <<"gpt-4">> \in DOMAIN upstream_raw["openai"].models
    /\ upstream_raw["openai"].models[<<"gpt-4">>].cost.input = Some(1150000)

\* C6 (as stated): the upstream cost is multiplied by 1000, so the example
\* records new_input 0.0115 against old_input 0.01 and returns true.
C6_ConvertsTimes1000 ==
    (CompareReturned /\ C6_Scenario) =>
        /\ has_changes
        /\ \E ch \in pricing_changes :
               /\ ch.model = Key("openai", <<"gpt-4">>)
               /\ ch.old_input = Some(1000000000)
               /\ ch.new_input = Some(1150000000)

\* C6 (amended): the upstream cost is divided by 1000: every recorded
\* new_input is a thousandth of the upstream cost.input of its key, and the
\* example records exactly one change, old_input 0.01 and new_input
\* 1.15e-8, and returns true.
C6_ConvertsDiv1000 ==
    CompareReturned =>
        /\ \A ch \in pricing_changes :
               ch.new_input # None =>
                   \E p \in DOMAIN upstream_raw :
                       \E m \in DOMAIN upstream_raw[p].models :
                           /\ Key(p, m) = ch.model
                           /\ upstream_raw[p].models[m].cost.input # None
                           /\ upstream_raw[p].models[m].cost.input[1] % 1000 = 0
                           /\ upstream_raw[p].models[m].cost.input[1] \div 1000 = ch.new_input[1]
        /\ C6_Scenario =>
               /\ has_changes
               /\ Cardinality({ ch \in pricing_changes :
                                  ch.model = Key("openai", <<"gpt-4">>) }) = 1
               /\ \A ch \in pricing_changes :
                      ch.model = Key("openai", <<"gpt-4">>) =>
                          (ch.old_input = Some(1000000000) /\ ch.new_input = Some(1150))

\* C6 witness: the comparator has run on the example.
C6_Witness == CompareReturned /\ C6_Scenario /\ pricing_changes # {}

\* C14 (as stated): compare_models never raises because of data content:
\* whatever the values inside a well-structured upstream snapshot (a cost
\* that is null, not a mapping or not a number), the run returns the
\* changed flag and ends with status 0.
C14_NeverRaisesOnContent ==
    /\ pc_cmp # "raised"
    /\ pc_cmp = "exited" => exit_code = 0

----------------------------------------------------------------------------
(* Claims about the bundle compiler, checked under SpecBundle *)

BundleBuilt == pc_bld \in {"built", "primary_written", "done"}

\* C1 (as stated): when models.json does not exist, the run stops before
\* any output file is written: no write step is passed and neither output
\* file exists.
C1_AbsentModelsIsFatal ==
    ~ models_file.exists =>
        /\ pc_bld \notin {"primary_written", "done"}
        /\ ~ out_primary.exists
        /\ ~ out_min.exists

\* C7 (as stated): the second run over the same registry.yaml, models.json
\* and provider configuration files builds the document the first run
\* built, generated_at apart, whatever order glob yields the files in.
C7_Deterministic ==
    (run = "second" /\ BundleBuilt) =>
        [bundle EXCEPT !.generated_at = 0] = [first_bundle EXCEPT !.generated_at = 0]

\* the sources of the exact domain index, in the order they are applied:
\* the registry's table, then each loaded provider's base URLs
IndexSources ==
    { [host |-> h, provider |-> registry_file.data.domain_lookup[h]] :
        h \in DOMAIN registry_file.data.domain_lookup }
    \cup UNION { { [ host |-> ExtractDomain(provider_configs[i].config.base_urls[j]),
                     provider |-> provider_configs[i].id ] :
                   j \in 1..Len(provider_configs[i].config.base_urls) } :
                 i \in 1..Len(provider_configs) }

\* two sources map one hostname to different providers
IndexCollision ==
    \E a, b \in IndexSources : a.host = b.host /\ a.provider # b.provider

\* C8 (as stated): when two sources map the same hostname to different
\* providers, the caller can tell: a diagnostic names the collision or the
\* document records it.
C8_CollisionDetectable ==
    (BundleBuilt /\ IndexCollision) =>
        \/ \E i \in 1..Len(stderr) : stderr[i].kind = "collision"
        \/ "collisions" \in DOMAIN bundle

\* C16 (as stated): after every successful compilation, whatever the run
\* options, the indented primary bundle and a minified twin (no
\* indentation, compact separators) both exist and hold the same document.
C16_TwinAlwaysWritten ==
    pc_bld = "done" =>
        /\ out_primary.exists
        /\ out_primary.indent = Some(2)
        /\ out_min.exists
        /\ out_min.indent = None
        /\ out_min.separators = <<",", ":">>
        /\ out_min.doc = out_primary.doc

\* str.lower() of a token
Lower(t) == IF t = "API" THEN "api" ELSE t

\* a string without scheme, without "/" and without an upper-case token
IsBareLowerHost(key) ==
    \A i \in 1..Len(key) :
        key[i] \notin {"https://", "http://", "/"} /\ key[i] = Lower(key[i])

\* the hostname of a URL: what follows the scheme, up to the first "/",
\* in lower case
HostOf(url) ==
    LET rest == IF url # << >> /\ Head(url) \in {"https://", "http://"}
                  THEN Tail(url) ELSE url
        stop == IF \E i \in 1..Len(rest) : rest[i] = "/"
                  THEN CHOOSE i \in 1..Len(rest) :
                           rest[i] = "/" /\ \A j \in 1..(i - 1) : rest[j] # "/"
                  ELSE Len(rest) + 1
    IN  [ i \in 1..(stop - 1) |-> Lower(rest[i]) ]

\* C15 (as stated): every key of the exact domain index is a bare lowercase
\* hostname, and the hostname of every declared base URL is a key mapped to
\* a provider that declares it.
C15_KeysAreBareHostnames ==
    BundleBuilt =>
        /\ \A key \in DOMAIN bundle.domain_index : IsBareLowerHost(key)
        /\ \A c \in 1..Len(provider_configs) :
               \A u \in 1..Len(provider_configs[c].config.base_urls) :
                   LET host == HostOf(provider_configs[c].config.base_urls[u])
                   IN  /\ host \in DOMAIN bundle.domain_index
                       /\ \E d \in 1..Len(provider_configs) :
                              /\ provider_configs[d].id = bundle.domain_index[host]
                              /\ \E v \in 1..Len(provider_configs[d].config.base_urls) :
                                     HostOf(provider_configs[d].config.base_urls[v]) = host

----------------------------------------------------------------------------
(* Claims about glob_to_regex, checked under SpecGlob *)

\* the candidate hostnames have at most this many tokens
MaxHostLen == 4

HostTokens == {".", "x", "com"}

HostFooAzure == <<"foo", ".", "azure", ".", "example", ".", "com">>
HostAzure == <<"azure", ".", "example", ".", "com">>
HostAzureEvil == HostFooAzure \o <<".", "evil", ".", "net">>

\* every short string over HostTokens, the three hostnames of the example
\* and hostnames around PatRegion
Hostnames ==
    UNION { [1..n -> HostTokens] : n \in 0..MaxHostLen }
    \cup { HostX, HostFooAzure, HostAzure, HostAzureEvil,
           <<".", "azure", ".", "example", ".", "com">>,
           <<"foo", "x", "azure", ".", "example", ".", "com">>,
           <<"api", "-", "eu", ".", "x", ".", "com">>,
           <<"api", "-", ".", "x", ".">>,
           <<"api", "x", "eu", ".", "x", ".", "com">>,
           <<"api", "-", "eu", ".", "x", "com">> }

\* the glob reading of a pattern: each "*" stands for some, possibly empty,
\* string and every other token for itself, over the whole hostname
RECURSIVE GlobAccepts(_, _)
GlobAccepts(pattern, host) ==
    IF pattern = << >> THEN host = << >>
    ELSE IF Head(pattern) = "*"
        THEN \E k \in 0..Len(host) :
                 GlobAccepts(Tail(pattern), SubSeq(host, k + 1, Len(host)))
    ELSE /\ host # << >>
         /\ Head(host) = Head(pattern)
         /\ GlobAccepts(Tail(pattern), Tail(host))

\* the token a backslash-escaped regex token stands for
Unescape(t) ==
    IF t = "\\." THEN "." ELSE IF t = "\\*" THEN "*" ELSE IF t = "\\-" THEN "-" ELSE t

\* the regular expression rx, from its token i on, matches host from
\* position pos on: "^" and "$" are the anchors, ".*" any run, "." any one
\* token, anything else a literal
RECURSIVE RegexMatchAt(_, _, _, _)
RegexMatchAt(rx, i, host, pos) ==
    IF i > Len(rx) THEN TRUE
    ELSE IF rx[i] = "^" THEN pos = 1 /\ RegexMatchAt(rx, i + 1, host, pos)
    ELSE IF rx[i] = "$" THEN pos = Len(host) + 1 /\ RegexMatchAt(rx, i + 1, host, pos)
    ELSE IF rx[i] = ".*"
        THEN \E q \in pos..(Len(host) + 1) : RegexMatchAt(rx, i + 1, host, q)
    ELSE /\ pos <= Len(host)
         /\ (rx[i] = "." \/ host[pos] = Unescape(rx[i]))
         /\ RegexMatchAt(rx, i + 1, host, pos + 1)

\* re.search(rx, host) finds a match
RegexAccepts(rx, host) ==
    \E start \in 1..(Len(host) + 1) : RegexMatchAt(rx, 1, host, start)

\* C11: the matcher compiled from a glob pattern accepts a hostname iff the
\* whole hostname is the pattern with each "*" replaced by some string and
\* every other token literal; "*.azure.example.com" accepts
\* "foo.azure.example.com" and rejects "azure.example.com" and
\* "foo.azure.example.com.evil.net".
C11_MatcherIsGlob ==
    glob_regex # None =>
        /\ \A host \in Hostnames :
               RegexAccepts(glob_regex[1], host) <=> GlobAccepts(glob_pattern, host)
        /\ glob_pattern = PatAzure =>
               /\ RegexAccepts(glob_regex[1], HostFooAzure)
               /\ ~ RegexAccepts(glob_regex[1], HostAzure)
               /\ ~ RegexAccepts(glob_regex[1], HostAzureEvil)

\* C11 witness: the pattern of the example, compiled to
\* "^.*\.azure\.example\.com$", accepting "foo.azure.example.com".
C11_Witness ==
    /\ glob_pattern = PatAzure
    /\ glob_regex = Some(<<"^", ".*", "\\.", "azure", "\\.", "example", "\\.", "com", "$">>)
    /\ RegexAccepts(glob_regex[1], HostFooAzure)
    /\ ~ RegexAccepts(glob_regex[1], HostAzure)

----------------------------------------------------------------------------
(* Claims about the normalizer and the sync run, checked under SpecSync *)

\* the entries of raw_data the loop of main has been through
ParsedEntries == 1..(next_entry - 1)

\* the sentinel, size-variant and no-provider rules
Excluded(model_id, entry) ==
    \/ model_id = <<"sample_spec">>
    \/ Head(model_id) \in {"1024-x-", "512-x-", "256-x-"}
    \/ entry.litellm_provider = ""

\* the alias table's translation of a tag, the raw tag when it has none
Translated(tag) ==
    IF \E q \in ProviderPairs : q[1] = tag
        THEN (CHOOSE q \in ProviderPairs : q[1] = tag)[2]
        ELSE tag

\* the records in main's list that came from the upstream entry model_id
RecordsOf(model_id) == { j \in 1..Len(models) : models[j].litellm_id = model_id }

\* C9: an upstream entry that is the sentinel, a size variant or without a
\* provider tag yields no record; every other entry yields exactly one
\* record, whose provider is the alias-table translation of its tag, or the
\* raw tag when the table has no entry for it.
C9_ExclusionAndTranslation ==
    pc_syn # "idle" =>
        \A i \in ParsedEntries :
            LET model_id == raw_data[i].model_id
                entry == raw_data[i].entry
            IN  IF Excluded(model_id, entry)
                  THEN RecordsOf(model_id) = {}
                  ELSE /\ Cardinality(RecordsOf(model_id)) = 1
                       /\ \A j \in RecordsOf(model_id) :
                              models[j].provider = Translated(entry.litellm_provider)

\* C9 witness: the loop is over a catalog with a size variant, which it
\* dropped, and an entry whose tag the alias table translates, which it kept.
C9_Witness ==
    /\ pc_syn = "grouped"
    /\ \E i \in ParsedEntries :
           /\ Head(raw_data[i].model_id) = "256-x-"
           /\ raw_data[i].entry.litellm_provider # ""
    /\ \E i \in ParsedEntries :
           /\ ~ Excluded(raw_data[i].model_id, raw_data[i].entry)
           /\ raw_data[i].entry.litellm_provider = "gemini"
           /\ \E j \in RecordsOf(raw_data[i].model_id) : models[j].provider = "google"

\* the record an upstream entry normalizes to, and its lookup key
Normalized(i) == parse_model_entry(raw_data[i].model_id, raw_data[i].entry)
NormalizedKey(i) == <<Normalized(i)[1].provider, "/">> \o Normalized(i)[1].id

RegistryWritten == pc_syn = "json_written" \/ (pc_syn = "exited" /\ exit_syn = 0)

\* C10: in the registry a sync run writes, every key "{provider}/{id}" of
\* models holds one record, that of the last upstream entry normalizing to
\* the key, and every normalized entry's key is in the mapping.
C10_LastSeenWins ==
    RegistryWritten =>
        LET kept == { i \in 1..Len(raw_data) : Normalized(i) # None }
            written == json_file.doc.models
        IN  /\ \A i \in kept : NormalizedKey(i) \in DOMAIN written
            /\ \A k \in DOMAIN written :
                   LET from == { i \in kept : NormalizedKey(i) = k }
                   IN  /\ from # {}
                       /\ \A i \in from :
                              (\A j \in from : j <= i) => written[k] = Normalized(i)[1]

\* C10 witness: a registry written from a catalog in which two entries
\* normalize to the same provider and id.
C10_Witness ==
    /\ RegistryWritten
    /\ \E i, j \in 1..Len(raw_data) :
           /\ i < j
           /\ Normalized(i) # None /\ Normalized(j) # None
           /\ Normalized(i)[1].provider = Normalized(j)[1].provider
           /\ Normalized(i)[1].id = Normalized(j)[1].id

\* C13 (as stated): an upstream entry that is not a mapping never aborts
\* the run: the run does not stop in the loop, and the registry it writes
\* holds every entry that is a mapping and is not excluded.
C13_MalformedEntrySkipped ==
    /\ pc_syn # "crashed"
    /\ RegistryWritten =>
           \A i \in 1..Len(raw_data) :
               (IsMapping(raw_data[i].entry) /\ Normalized(i) # None)
                   => NormalizedKey(i) \in DOMAIN json_file.doc.models

\* C17 (as stated): in the registry generate_json writes, total_models is
\* the number of keys of models, stats.providers the number of keys of
\* providers, and each provider's model_count is the number of keys of
\* models with that provider, its models list holding each of those ids
\* exactly once; also when two entries normalize to the same pair.
C17_CountsAgreeWithModels ==
    RegistryWritten =>
        LET doc == json_file.doc
        IN  /\ doc.stats.total_models = Cardinality(DOMAIN doc.models)
            /\ doc.stats.providers = Cardinality(DOMAIN doc.providers)
            /\ \A p \in DOMAIN doc.providers :
                   LET keys == { k \in DOMAIN doc.models : doc.models[k].provider = p }
                       ids == doc.providers[p].models
                   IN  /\ doc.providers[p].model_count = Cardinality(keys)
                       /\ \A k \in keys :
                              Cardinality({ i \in 1..Len(ids) : ids[i] = doc.models[k].id }) = 1
                       /\ \A i \in 1..Len(ids) : \E k \in keys : doc.models[k].id = ids[i]

\* the three registry output files
OutputFiles == <<yaml_file, json_file, ts_file>>

\* C12: a registry file is written only in a run whose fetch has returned
\* the complete catalog, and a run whose fetch fails ends with a failure
\* status and leaves the three files as they were.
C12_FetchFailureWritesNothing ==
    [][ /\ OutputFiles' # OutputFiles =>
              /\ pc_syn \in {"grouped", "yaml_written", "json_written"}
              /\ raw_data = upstream
        /\ (pc_syn = "start" /\ pc_syn' = "exited") =>
              /\ exit_syn' = 1
              /\ OutputFiles' = OutputFiles ]_vars

\* C12 witness: a run whose fetch failed has ended with status 1 over the
\* files of an earlier run, which are still there.
C12_Witness ==
    /\ pc_syn = "exited"
    /\ exit_syn = 1
    /\ raw_data = << >>
    /\ yaml_file = [exists |-> TRUE, doc |-> [version |-> "previous"]]
    /\ json_file = [exists |-> TRUE, doc |-> [version |-> "previous"]]
    /\ ts_file = [exists |-> TRUE, doc |-> "previous"]

====
